---- MODULE Spec2Model ----
(***************************************************************************)
(* A model of get_info.py: main() walks a directory, collects FileInfo     *)
(* records, filters them by size, name and date, sorts and prints them and *)
(* writes them to a file once per requested format.                        *)
(*                                                                         *)
(* Python strings are sequences of one-character strings, so that lower(), *)
(* the `in` substring test, str comparison, strftime and strptime are      *)
(* computed character by character, as the interpreter computes them.      *)
(***************************************************************************)
EXTENDS Integers, Sequences, FiniteSets, TLC

None == "None"

(* Optional values that are not plain names: None is the empty tuple, a    *)
(* given value v the one-tuple of v.                                       *)
NoneOpt == <<>>

Some(v) == <<v>>

IsNone(o) == Len(o) = 0

Val(o) == o[1]

(* The longest directory listing a run walks. *)
MaxFiles == 3

----------------------------------------------------------------------------
(* Characters and str operations                                           *)

Digits == <<"0", "1", "2", "3", "4", "5", "6", "7", "8", "9">>

UpperCase == <<"A", "B", "C", "D", "E", "F", "G", "H", "I", "J", "K", "L", "M",
               "N", "O", "P", "Q", "R", "S", "T", "U", "V", "W", "X", "Y", "Z">>

LowerCase == <<"a", "b", "c", "d", "e", "f", "g", "h", "i", "j", "k", "l", "m",
               "n", "o", "p", "q", "r", "s", "t", "u", "v", "w", "x", "y", "z">>

(* The characters of the model in code-point order. *)
CharOrder == <<" ", ",", "-", ".">> \o Digits \o <<":">> \o UpperCase
                 \o <<"_">> \o LowerCase

IndexIn(seq, c) == CHOOSE i \in 1..Len(seq) : seq[i] = c

InSeq(seq, c) == \E i \in 1..Len(seq) : seq[i] = c

Ord(c) == IndexIn(CharOrder, c)

IsDigit(c) == InSeq(Digits, c)

DigitVal(c) == IndexIn(Digits, c) - 1

(* str.lower() on one character, then on a string. *)
LowerChar(c) == IF InSeq(UpperCase, c) THEN LowerCase[IndexIn(UpperCase, c)] ELSE c

Lower(s) == [i \in 1..Len(s) |-> LowerChar(s[i])]

(* needle in hay, for two str. *)
Contains(hay, needle) ==
    \E i \in 0..(Len(hay) - Len(needle)) :
        \A j \in 1..Len(needle) : hay[i + j] = needle[j]

(* a < b for two str: the first differing code point decides, a proper     *)
(* prefix is smaller.                                                      *)
StrLess(a, b) ==
    \E i \in 1..Len(b) :
        /\ \A j \in 1..(i - 1) : j <= Len(a) /\ a[j] = b[j]
        /\ i - 1 <= Len(a)
        /\ (i > Len(a) \/ Ord(a[i]) < Ord(b[i]))

(* str.split(','): the pieces between the commas, empty pieces included.   *)
RECURSIVE SplitFrom(_, _, _)
SplitFrom(s, i, cur) ==
    IF i > Len(s) THEN <<cur>>
    ELSE IF s[i] = "," THEN <<cur>> \o SplitFrom(s, i + 1, <<>>)
    ELSE SplitFrom(s, i + 1, Append(cur, s[i]))

Split(s) == SplitFrom(s, 1, <<>>)

(* pathlib's PurePath.suffix of a file name: from the last dot on, unless  *)
(* the dot is the first or the last character or there is none.            *)
LastDot(name) ==
    IF \E i \in 1..Len(name) : name[i] = "."
    THEN CHOOSE i \in 1..Len(name) :
            name[i] = "." /\ \A j \in (i + 1)..Len(name) : name[j] /= "."
    ELSE 0

Suffix(name) ==
    LET i == LastDot(name)
    IN  IF 1 < i /\ i < Len(name) THEN SubSeq(name, i, Len(name)) ELSE <<>>

----------------------------------------------------------------------------
(* time.strftime and datetime.strptime with "%d.%m.%Y %H:%M"               *)

Pad2(n) == <<Digits[(n \div 10) + 1], Digits[(n % 10) + 1]>>

Pad4(n) == <<Digits[(n \div 1000) + 1], Digits[((n \div 100) % 10) + 1],
             Digits[((n \div 10) % 10) + 1], Digits[(n % 10) + 1]>>

(* strftime("%d.%m.%Y %H:%M", t) of a broken-down local time t.            *)
strftime(t) ==
    Pad2(t.d) \o <<".">> \o Pad2(t.m) \o <<".">> \o Pad4(t.Y) \o <<" ">>
        \o Pad2(t.H) \o <<":">> \o Pad2(t.M)

NoMatch == [ok |-> FALSE, val |-> 0, next |-> 0]

DigitAt(s, i) == i <= Len(s) /\ IsDigit(s[i])

(* One numeric directive of the format at position i. _strptime's regex    *)
(* tries the two-digit alternatives first (value in lo2..hi2), then the    *)
(* one-digit one (value in lo1..9); %d also takes a blank and one digit.   *)
Directive(s, i, lo2, hi2, lo1, blank) ==
    LET two == DigitVal(s[i]) * 10 + DigitVal(s[i + 1])
    IN  IF DigitAt(s, i) /\ DigitAt(s, i + 1) /\ two >= lo2 /\ two <= hi2
        THEN [ok |-> TRUE, val |-> two, next |-> i + 2]
        ELSE IF DigitAt(s, i) /\ DigitVal(s[i]) >= lo1
        THEN [ok |-> TRUE, val |-> DigitVal(s[i]), next |-> i + 1]
        ELSE IF blank /\ i + 1 <= Len(s) /\ s[i] = " " /\ DigitAt(s, i + 1)
                /\ DigitVal(s[i + 1]) >= 1
        THEN [ok |-> TRUE, val |-> DigitVal(s[i + 1]), next |-> i + 2]
        ELSE NoMatch

(* %Y: exactly four digits. *)
Year(s, i) ==
    IF \A k \in 0..3 : DigitAt(s, i + k)
    THEN [ok |-> TRUE,
          val |-> DigitVal(s[i]) * 1000 + DigitVal(s[i + 1]) * 100
                    + DigitVal(s[i + 2]) * 10 + DigitVal(s[i + 3]),
          next |-> i + 4]
    ELSE NoMatch

(* A literal character of the format. *)
Literal(s, i, c) ==
    IF i <= Len(s) /\ s[i] = c THEN [ok |-> TRUE, val |-> 0, next |-> i + 1]
    ELSE NoMatch

(* The blank of the format is compiled to \s+ : one or more blanks.        *)
RECURSIVE SkipBlanks(_, _)
SkipBlanks(s, i) == IF i <= Len(s) /\ s[i] = " " THEN SkipBlanks(s, i + 1) ELSE i

Blanks(s, i) ==
    IF i <= Len(s) /\ s[i] = " "
    THEN [ok |-> TRUE, val |-> 0, next |-> SkipBlanks(s, i)]
    ELSE NoMatch

IsLeap(y) == (y % 4 = 0 /\ y % 100 /= 0) \/ y % 400 = 0

DaysInMonth(y, m) ==
    IF m = 2 THEN (IF IsLeap(y) THEN 29 ELSE 28)
    ELSE IF m \in {4, 6, 9, 11} THEN 30 ELSE 31

(* datetime.strptime(s, "%d.%m.%Y %H:%M"): the datetime, or ValueError     *)
(* raised when the regex does not match, data remains unconverted, or the  *)
(* fields are no date.                                                     *)
NoDatetime == [Y |-> 0, m |-> 0, d |-> 0, H |-> 0, M |-> 0]

(* The format "%d.%m.%Y %H:%M", directive by directive.                    *)
DateFormat == <<"%d", ".", "%m", ".", "%Y", " ", "%H", ":", "%M">>

(* The match of one item of the format at position i of s.                 *)
MatchItem(s, i, item) ==
    IF item = "%d" THEN Directive(s, i, 1, 31, 1, TRUE)
    ELSE IF item = "%m" THEN Directive(s, i, 1, 12, 1, FALSE)
    ELSE IF item = "%Y" THEN Year(s, i)
    ELSE IF item = "%H" THEN Directive(s, i, 0, 23, 0, FALSE)
    ELSE IF item = "%M" THEN Directive(s, i, 0, 59, 0, FALSE)
    ELSE IF item = " " THEN Blanks(s, i)
    ELSE Literal(s, i, item)

(* The regex match from item k on: the values found so far, or no match.   *)
RECURSIVE MatchFrom(_, _, _, _)
MatchFrom(s, i, k, found) ==
    IF k > Len(DateFormat) THEN [ok |-> i = Len(s) + 1, vals |-> found]
    ELSE LET r == MatchItem(s, i, DateFormat[k])
         IN  IF r.ok THEN MatchFrom(s, r.next, k + 1, Append(found, r.val))
             ELSE [ok |-> FALSE, vals |-> found]

strptime(s) ==
    LET r == MatchFrom(s, 1, 1, <<>>)
    IN  IF r.ok /\ r.vals[5] >= 1 /\ r.vals[1] <= DaysInMonth(r.vals[5], r.vals[3])
        THEN [raised |-> FALSE,
              value |-> [Y |-> r.vals[5], m |-> r.vals[3], d |-> r.vals[1],
                         H |-> r.vals[7], M |-> r.vals[9]]]
        ELSE [raised |-> TRUE, value |-> NoDatetime]

(* a >= b for two datetime objects. *)
DatetimeGe(a, b) ==
    LET ta == <<a.Y, a.m, a.d, a.H, a.M>>
        tb == <<b.Y, b.m, b.d, b.H, b.M>>
    IN  \/ ta = tb
        \/ \E i \in 1..5 : ta[i] > tb[i] /\ \A j \in 1..(i - 1) : ta[j] = tb[j]

----------------------------------------------------------------------------
(* The state of one run of main()                                          *)

VARIABLES
    args,             \* the arguments main() is called with
    env,              \* os.getenv('FILE_DIRECTORY'): None or a str
    fs,               \* what the walk of the root yields, in traversal order
    pc,               \* the statement main() is at
    extensions_set,   \* main's extensions_set
    heap,             \* the list objects built so far
    file_info_list,   \* main's file_info_list: the index of a list in heap
    stdout,           \* the tables printed
    disk,             \* the files written: path -> content
    log,              \* the logging calls made
    fmt_i,            \* position of the for-loop over output_formats
    calls,            \* the output_format of each write_to_file call so far
    raised            \* the exception main() ended with, or None

vars == <<args, env, fs, pc, extensions_set, heap, file_info_list, stdout, disk,
          log, fmt_i, calls, raised>>

Root == "root"

SubDir == "root/sub"

(* Path(s): the empty str is the current directory. *)
Path(s) == IF s = "" THEN "." ELSE s

(* Path.is_dir() of the directories a run may name. *)
IsDir(p) == p \in {Root, "."}

----------------------------------------------------------------------------
(* FileInfo.from_path and collect_file_info                                *)

LogRec(level, msg) == [level |-> level, msg |-> msg]

(* The except clause that catches exception class e in from_path.          *)
StatHandler(e) ==
    IF e = "FileNotFoundError" THEN LogRec("ERROR", "file not found")
    ELSE IF e = "PermissionError" THEN LogRec("ERROR", "no access to file")
    ELSE LogRec("ERROR", "error getting file info")

(* from_path with the second stat() call outside the try block.            *)
from_path_SecondStatUncaught(filepath) ==
    IF filepath.stat1 /= "ok"
    THEN [raised |-> None, info |-> NoneOpt, log |-> <<StatHandler(filepath.stat1)>>]
    ELSE IF filepath.stat2 /= "ok"
    THEN [raised |-> filepath.stat2, info |-> NoneOpt, log |-> <<>>]
    ELSE [raised |-> None,
          info |-> Some([name |-> filepath.name, path |-> filepath.path,
                         size |-> filepath.st_size,
                         modified_time |-> strftime(filepath.mtime),
                         parent_dir |-> filepath.parent_dir]),
          log |-> <<>>]

(* FileInfo.from_path(filepath): the FileInfo, or None and the error       *)
(* logged when the first or the second stat() call raises; every exception *)
(* class stat() raises is an OSError, so none leaves the function.         *)
from_path(filepath) ==
    IF filepath.stat1 /= "ok"
    THEN [raised |-> None, info |-> NoneOpt, log |-> <<StatHandler(filepath.stat1)>>]
    ELSE IF filepath.stat2 /= "ok"
    THEN [raised |-> None, info |-> NoneOpt, log |-> <<StatHandler(filepath.stat2)>>]
    ELSE [raised |-> None,
          info |-> Some([name |-> filepath.name, path |-> filepath.path,
                         size |-> filepath.st_size,
                         modified_time |-> strftime(filepath.mtime),
                         parent_dir |-> filepath.parent_dir]),
          log |-> <<>>]

(* directory.rglob('*') or directory.glob('*').                            *)
SearchPattern(listing, recursive) ==
    SelectSeq(listing, LAMBDA p : recursive \/ p.parent_dir = Root)

(* The condition without the allow-list test. *)
Matches_NoAllowList(filepath, extensions) == filepath.is_file

(* The condition of the if in the loop of collect_file_info.               *)
Matches(filepath, extensions) ==
    filepath.is_file
        /\ (extensions = {} \/ Lower(Suffix(filepath.name)) \in extensions)

(* The for-loop of collect_file_info from the i-th path on; an exception   *)
(* that leaves from_path leaves the loop and the function.                 *)
RECURSIVE CollectLoop(_, _, _, _)
CollectLoop(paths, i, extensions, acc) ==
    IF i > Len(paths) THEN acc
    ELSE IF Matches(paths[i], extensions)
    THEN LET r == from_path(paths[i])
         IN  IF r.raised /= None
             THEN [raised |-> r.raised, list |-> acc.list, log |-> acc.log \o r.log]
             ELSE CollectLoop(paths, i + 1, extensions,
                    [raised |-> None,
                     list |-> IF IsNone(r.info) THEN acc.list
                              ELSE Append(acc.list, Val(r.info)),
                     log |-> acc.log \o r.log])
    ELSE CollectLoop(paths, i + 1, extensions, acc)

collect_file_info(listing, extensions, recursive) ==
    CollectLoop(SearchPattern(listing, recursive), 1, extensions,
                [raised |-> None, list |-> <<>>, log |-> <<>>])

----------------------------------------------------------------------------
(* The filters                                                             *)

(* The comprehension with > in place of >= . *)
filter_by_size_Exclusive(list, min_size) ==
    SelectSeq(list, LAMBDA f : f.size > min_size)

(* The list comprehension under `if min_size:` in main.                    *)
filter_by_size(list, min_size) == SelectSeq(list, LAMBDA f : f.size >= min_size)

(* filter_by_name without lower() on the entry's name. *)
filter_by_name_NameNotLowered(list, name_filter) ==
    SelectSeq(list, LAMBDA f : Contains(f.name, Lower(name_filter)))

filter_by_name(list, name_filter) ==
    SelectSeq(list, LAMBDA f : Contains(Lower(f.name), Lower(name_filter)))

(* filter_by_date with > in place of >= . *)
filter_by_date_Exclusive(list, date_filter) ==
    LET filter_date == strptime(date_filter)
    IN  IF filter_date.raised
        THEN [raised |-> TRUE, list |-> <<>>,
              log |-> <<LogRec("ERROR", "bad date format")>>]
        ELSE [raised |-> FALSE,
              list |-> SelectSeq(list, LAMBDA f :
                          ~DatetimeGe(filter_date.value,
                                      strptime(f.modified_time).value)),
              log |-> <<>>]

(* filter_by_date: ValueError when the bound does not parse; otherwise the *)
(* entries whose parsed modified_time is >= the parsed bound.              *)
filter_by_date(list, date_filter) ==
    LET filter_date == strptime(date_filter)
    IN  IF filter_date.raised
        THEN [raised |-> TRUE, list |-> <<>>,
              log |-> <<LogRec("ERROR", "bad date format")>>]
        ELSE [raised |-> FALSE,
              list |-> SelectSeq(list, LAMBDA f :
                          DatetimeGe(strptime(f.modified_time).value,
                                     filter_date.value)),
              log |-> <<>>]

----------------------------------------------------------------------------
(* Sorting and presentation                                                *)

(* sort_funcs.get(sort_by): the key function's name, or None.              *)
sort_funcs(sort_by) == IF sort_by \in {"name", "size", "modified"} THEN sort_by ELSE None

(* The comparison with the modified key parsed to a datetime. *)
KeyLess_Chronological(key, a, b) ==
    IF key = "name" THEN StrLess(a.name, b.name)
    ELSE IF key = "size" THEN a.size < b.size
    ELSE ~DatetimeGe(strptime(a.modified_time).value, strptime(b.modified_time).value)

(* key(a) < key(b), the only comparison list.sort makes.                   *)
KeyLess(key, a, b) ==
    IF key = "name" THEN StrLess(a.name, b.name)
    ELSE IF key = "size" THEN a.size < b.size
    ELSE StrLess(a.modified_time, b.modified_time)

(* list.sort(key=...) is stable: x goes before the first element whose key *)
(* is greater, so after every element with an equal key.                   *)
InsertByKey(sorted, x, key) ==
    LET later == {i \in 1..Len(sorted) : KeyLess(key, x, sorted[i])}
        at == IF later = {} THEN Len(sorted) + 1
              ELSE CHOOSE i \in later : \A j \in later : i <= j
    IN  SubSeq(sorted, 1, at - 1) \o <<x>> \o SubSeq(sorted, at, Len(sorted))

RECURSIVE SortPrefix(_, _, _)
SortPrefix(list, n, key) ==
    IF n = 0 THEN <<>> ELSE InsertByKey(SortPrefix(list, n - 1, key), list[n], key)

ListSort(list, key) == SortPrefix(list, Len(list), key)

Headers == <<"name", "path", "size", "modified_time", "parent_dir">>

(* The tuple built for each f in the table comprehensions.                 *)
Row(f) == <<f.name, f.path, f.size, f.modified_time, f.parent_dir>>

Table(list) == [i \in 1..Len(list) |-> Row(list[i])]

(* The formats tabulate knows among those the runs request; any other name *)
(* is rendered as "simple".                                                *)
TableFormats == {"grid", "simple", "tsv", "html"}

tabulate(table, tablefmt) ==
    [tablefmt |-> IF tablefmt \in TableFormats THEN tablefmt ELSE "simple",
     headers |-> Headers, rows |-> table]

(* display_file_info printing a sorted copy, sorted(file_info_list, ...),  *)
(* and leaving the list itself as it was.                                  *)
display_file_info_SortsCopy(list, sort_by) ==
    IF list = <<>>
    THEN [list |-> list, out |-> <<>>, log |-> <<LogRec("INFO", "no files found")>>]
    ELSE LET sorted == IF sort_by /= None THEN ListSort(list, sort_by) ELSE list
         IN  [list |-> list, out |-> <<tabulate(Table(sorted), "grid")>>,
              log |-> <<>>]

(* display_file_info: the list after the call, what is printed and logged. *)
display_file_info(list, sort_by) ==
    IF list = <<>>
    THEN [list |-> list, out |-> <<>>, log |-> <<LogRec("INFO", "no files found")>>]
    ELSE LET sorted == IF sort_by /= None THEN ListSort(list, sort_by) ELSE list
         IN  [list |-> sorted, out |-> <<tabulate(Table(sorted), "grid")>>,
              log |-> <<>>]

(* What can go wrong in the with-block of write_to_file: open() raises,    *)
(* or the file is opened (and truncated) and a later statement raises.     *)
WriteFaults == {"ok", "open:PermissionError", "open:OSError", "write:OSError",
                "write:Exception"}

(* The except clause that catches the fault in write_to_file.              *)
WriteHandler(fault) ==
    IF fault = "open:PermissionError" THEN LogRec("ERROR", "no write access")
    ELSE IF fault \in {"open:OSError", "write:OSError"} THEN LogRec("ERROR", "io error")
    ELSE LogRec("ERROR", "unknown write error")

(* A path of the disk: no file, a file opened with 'w' and left empty, or  *)
(* a file holding the text written to it.                                  *)
Absent == [exists |-> FALSE, text |-> NoneOpt]

Truncated == [exists |-> TRUE, text |-> NoneOpt]

Written(output) == [exists |-> TRUE, text |-> Some(output)]

(* write_to_file without the last except clause: an exception that is no  *)
(* OSError leaves it.                                                      *)
write_to_file_NoCatchAll(list, output_file, output_format, fault, files) ==
    LET output == tabulate(Table(list), output_format)
    IN  IF output_file /= None
        THEN IF fault = "ok"
             THEN [raised |-> None,
                   disk |-> [files EXCEPT ![output_file] = Written(output)],
                   out |-> <<>>, log |-> <<LogRec("INFO", "written to file")>>]
             ELSE IF fault \in {"open:PermissionError", "open:OSError"}
             THEN [raised |-> None, disk |-> files, out |-> <<>>,
                   log |-> <<WriteHandler(fault)>>]
             ELSE IF fault = "write:OSError"
             THEN [raised |-> None,
                   disk |-> [files EXCEPT ![output_file] = Truncated],
                   out |-> <<>>, log |-> <<WriteHandler(fault)>>]
             ELSE [raised |-> "Exception",
                   disk |-> [files EXCEPT ![output_file] = Truncated],
                   out |-> <<>>, log |-> <<>>]
        ELSE [raised |-> None, disk |-> files, out |-> <<output>>, log |-> <<>>]

(* write_to_file(file_info_list, output_file, output_format) under a       *)
(* fault: the exception that leaves it, the disk, what is printed, logged. *)
write_to_file(list, output_file, output_format, fault, files) ==
    LET output == tabulate(Table(list), output_format)
    IN  IF output_file /= None
        THEN IF fault = "ok"
             THEN [raised |-> None,
                   disk |-> [files EXCEPT ![output_file] = Written(output)],
                   out |-> <<>>, log |-> <<LogRec("INFO", "written to file")>>]
             ELSE IF fault \in {"open:PermissionError", "open:OSError"}
             THEN [raised |-> None, disk |-> files, out |-> <<>>,
                   log |-> <<WriteHandler(fault)>>]
             ELSE [raised |-> None,
                   disk |-> [files EXCEPT ![output_file] = Truncated],
                   out |-> <<>>, log |-> <<WriteHandler(fault)>>]
        ELSE [raised |-> None, disk |-> files, out |-> <<output>>, log |-> <<>>]

----------------------------------------------------------------------------
(* main(), statement by statement                                          *)

(* Lines 136-137 with the positional argument whatever the environment.   *)
directory_path_IgnoresEnv == Path(args.directory)

(* Lines 136-137: the root the run walks; an env_directory of None or ''   *)
(* is falsy.                                                               *)
directory_path ==
    IF env /= None /\ env /= "" THEN Path(env) ELSE Path(args.directory)

(* Line 143. *)
ExtensionsSet(extensions) ==
    IF extensions /= <<>>
    THEN {Lower(Split(extensions)[i]) : i \in 1..Len(Split(extensions))}
    ELSE {}

CurrentList == heap[file_info_list]

(* Lines 139-144: the directory check and the allow-list.                  *)
CheckDirectory ==
    /\ pc = "start"
    /\ IF ~IsDir(directory_path)
       THEN /\ log' = Append(log, LogRec("ERROR", "directory does not exist"))
            /\ pc' = "done"
            /\ UNCHANGED extensions_set
       ELSE /\ extensions_set' = ExtensionsSet(args.extensions)
            /\ log' = Append(log, LogRec("INFO", "collecting"))
            /\ pc' = "collect"
    /\ UNCHANGED <<args, env, fs, heap, file_info_list, stdout, disk, fmt_i, calls,
                   raised>>

(* Lines 146-147. *)
Collect ==
    /\ pc = "collect"
    /\ LET r == collect_file_info(fs, extensions_set, args.recursive)
       IN  IF r.raised /= None
           THEN /\ raised' = r.raised
                /\ log' = log \o r.log
                /\ pc' = "done"
                /\ UNCHANGED <<heap, file_info_list>>
           ELSE /\ heap' = Append(heap, r.list)
                /\ file_info_list' = Len(heap) + 1
                /\ log' = log \o r.log \o <<LogRec("INFO", "files found")>>
                /\ pc' = "size"
                /\ UNCHANGED raised
    /\ UNCHANGED <<args, env, fs, extensions_set, stdout, disk, fmt_i, calls>>

(* Lines 149-151: a min_size of None or 0 is falsy.                        *)
SizeFilter ==
    /\ pc = "size"
    /\ IF ~IsNone(args.min_size) /\ Val(args.min_size) /= 0
       THEN /\ heap' = Append(heap, filter_by_size(CurrentList, Val(args.min_size)))
            /\ file_info_list' = Len(heap) + 1
            /\ log' = Append(log, LogRec("INFO", "filtered by size"))
       ELSE UNCHANGED <<heap, file_info_list, log>>
    /\ pc' = "name"
    /\ UNCHANGED <<args, env, fs, extensions_set, stdout, disk, fmt_i, calls, raised>>

(* Lines 153-155: a name_filter of None or '' is falsy.                    *)
NameFilter ==
    /\ pc = "name"
    /\ IF ~IsNone(args.name_filter) /\ Val(args.name_filter) /= <<>>
       THEN /\ heap' = Append(heap, filter_by_name(CurrentList, Val(args.name_filter)))
            /\ file_info_list' = Len(heap) + 1
            /\ log' = Append(log, LogRec("INFO", "filtered by name"))
       ELSE UNCHANGED <<heap, file_info_list, log>>
    /\ pc' = "date"
    /\ UNCHANGED <<args, env, fs, extensions_set, stdout, disk, fmt_i, calls, raised>>

(* Lines 157-159: a date_filter of None or '' is falsy; the ValueError of  *)
(* filter_by_date is not caught and ends main.                             *)
DateFilter ==
    /\ pc = "date"
    /\ IF ~IsNone(args.date_filter) /\ Val(args.date_filter) /= <<>>
       THEN LET r == filter_by_date(CurrentList, Val(args.date_filter))
            IN  IF r.raised
                THEN /\ raised' = "ValueError"
                     /\ log' = log \o r.log
                     /\ pc' = "done"
                     /\ UNCHANGED <<heap, file_info_list>>
                ELSE /\ heap' = Append(heap, r.list)
                     /\ file_info_list' = Len(heap) + 1
                     /\ log' = Append(log, LogRec("INFO", "filtered by date"))
                     /\ pc' = "display"
                     /\ UNCHANGED raised
       ELSE /\ pc' = "display"
            /\ UNCHANGED <<heap, file_info_list, log, raised>>
    /\ UNCHANGED <<args, env, fs, extensions_set, stdout, disk, fmt_i, calls>>

(* Lines 161-169: the list object is sorted in place.                      *)
Display ==
    /\ pc = "display"
    /\ LET r == display_file_info(CurrentList, sort_funcs(args.sort_by))
       IN  /\ heap' = [heap EXCEPT ![file_info_list] = r.list]
           /\ stdout' = stdout \o r.out
           /\ log' = log \o r.log
    /\ pc' = "write"
    /\ fmt_i' = 1
    /\ UNCHANGED <<args, env, fs, extensions_set, file_info_list, disk, calls, raised>>

(* `if output_formats:` is false for None and for the empty list.          *)
Formats == IF IsNone(args.output_formats) THEN <<>> ELSE Val(args.output_formats)

(* Lines 172-174: one pass of the for-loop.                                *)
WriteFormat ==
    /\ pc = "write"
    /\ fmt_i <= Len(Formats)
    /\ \E fault \in (IF args.output_file /= None THEN WriteFaults ELSE {"ok"}) :
         LET r == write_to_file(CurrentList, args.output_file, Formats[fmt_i],
                                fault, disk)
         IN  /\ disk' = r.disk
             /\ stdout' = stdout \o r.out
             /\ log' = log \o r.log
             /\ calls' = Append(calls, Formats[fmt_i])
             /\ IF r.raised /= None
                THEN raised' = r.raised /\ pc' = "done" /\ UNCHANGED fmt_i
                ELSE fmt_i' = fmt_i + 1 /\ UNCHANGED <<pc, raised>>
    /\ UNCHANGED <<args, env, fs, extensions_set, heap, file_info_list>>

(* The loop is over, or was never entered: main returns.                   *)
Return ==
    /\ pc = "write"
    /\ fmt_i > Len(Formats)
    /\ pc' = "done"
    /\ UNCHANGED <<args, env, fs, extensions_set, heap, file_info_list, stdout,
                   disk, log, fmt_i, calls, raised>>

Next ==
    \/ CheckDirectory
    \/ Collect
    \/ SizeFilter
    \/ NameFilter
    \/ DateFilter
    \/ Display
    \/ WriteFormat
    \/ Return

----------------------------------------------------------------------------
(* The runs explored: directory listings, arguments, environment           *)

OutFile == "out.txt"

OutputPaths == {OutFile}

Time(d, m, Y, H, M) == [d |-> d, m |-> m, Y |-> Y, H |-> H, M |-> M]

NewYearsEve == Time(31, 12, 2022, 23, 59)

NewYear == Time(1, 1, 2023, 0, 0)

MidYear == Time(15, 6, 2022, 12, 0)

NewYearNoon == Time(1, 1, 2023, 12, 0)

(* The str values the runs use. *)
A_TXT == <<"a", ".", "t", "x", "t">>

B_TXT_UPPER == <<"b", ".", "T", "X", "T">>

C_MD == <<"c", ".", "m", "d">>

NOEXT == <<"n", "o", "e", "x", "t">>

D_TXT == <<"d", ".", "t", "x", "t">>

E_TXT == <<"e", ".", "t", "x", "t">>

F_MD == <<"f", ".", "m", "d">>

DIR_TXT == <<"d", "i", "r", ".", "t", "x", "t">>

EXT_TXT == <<".", "t", "x", "t">>

EXT_UPPER_TXT_MD == <<".", "T", "X", "T", ",", ".", "m", "d">>

EXT_NO_DOT == <<"t", "x", "t">>

EXT_TXT_COMMA == <<".", "t", "x", "t", ",">>

TEST_TXT == <<"T", "e", "s", "t", ".", "t", "x", "t">>

TEST_LOWER_MD == <<"t", "e", "s", "t", ".", "m", "d">>

BEST_TXT == <<"b", "E", "S", "T", ".", "t", "x", "t">>

EX_TXT == <<"e", "x", ".", "t", "x", "t">>

Z_TXT == <<"Z", ".", "t", "x", "t">>

NF_TEST == <<"t", "e", "s", "t">>

NF_TEST_UPPER == <<"T", "E", "S", "T">>

NF_ES == <<"E", "s">>

NF_DOT_T == <<".", "t">>

NF_ABSENT == <<"q">>

DF_NEW_YEAR ==
    <<"0", "1", ".", "0", "1", ".", "2", "0", "2", "3", " ", "0", "0", ":", "0", "0">>

DF_NEW_YEAR_SHORT ==
    <<"1", ".", "1", ".", "2", "0", "2", "3", " ", "0", ":", "0", "0">>

DF_NEW_YEARS_EVE ==
    <<"3", "1", ".", "1", "2", ".", "2", "0", "2", "2", " ", "2", "3", ":", "5", "9">>

DF_WORDS ==
    <<"i", "n", "v", "a", "l", "i", "d">>

DF_ISO ==
    <<"2", "0", "2", "3", "-", "0", "1", "-", "0", "1", " ", "0", "0", ":", "0", "0">>

DF_FEB_31 ==
    <<"3", "1", ".", "0", "2", ".", "2", "0", "2", "3", " ", "0", "0", ":", "0", "0">>

DF_NO_TIME ==
    <<"0", "1", ".", "0", "1", ".", "2", "0", "2", "3">>

(* What the walk yields for one path and what stat() on it will do.        *)
File(name, parent, is_file, size, mtime, stat1, stat2) ==
    [path |-> 0, name |-> name, parent_dir |-> parent, is_file |-> is_file,
     st_size |-> size, mtime |-> mtime, stat1 |-> stat1, stat2 |-> stat2]

Plain(name, parent, size, mtime) == File(name, parent, TRUE, size, mtime, "ok", "ok")

(* The listings of at most MaxFiles paths built from the templates T: no   *)
(* two paths of a listing share parent and name, and the path of the i-th  *)
(* is i.                                                                   *)
Listings(T) ==
    UNION {{[i \in 1..n |-> [g[i] EXCEPT !.path = i]] :
              g \in {h \in [1..n -> T] :
                        \A i, j \in 1..n :
                            i /= j => <<h[i].parent_dir, h[i].name>>
                                        /= <<h[j].parent_dir, h[j].name>>}} :
           n \in 0..MaxFiles}

DefaultArgs ==
    [directory |-> Root, extensions |-> <<>>, output_file |-> None,
     sort_by |-> None, min_size |-> NoneOpt, recursive |-> TRUE,
     output_formats |-> Some(<<"grid">>), name_filter |-> NoneOpt,
     date_filter |-> NoneOpt]

InitWith(listings, arguments, environment) ==
    /\ fs \in listings
    /\ args \in arguments
    /\ env \in environment
    /\ pc = "start"
    /\ extensions_set = {}
    /\ heap = <<>>
    /\ file_info_list = 0
    /\ stdout = <<>>
    /\ disk = [p \in OutputPaths |-> Absent]
    /\ log = <<>>
    /\ fmt_i = 0
    /\ calls = <<>>
    /\ raised = None

(* Runs that vary what the walk meets and the extension allow-list.        *)
CollectTemplates ==
    {Plain(A_TXT, Root, 0, NewYear),
     Plain(B_TXT_UPPER, SubDir, 1024, NewYear),
     Plain(C_MD, Root, 2048, MidYear),
     Plain(NOEXT, Root, 512, MidYear),
     File(D_TXT, Root, TRUE, 512, NewYear, "FileNotFoundError", "ok"),
     File(E_TXT, SubDir, TRUE, 512, NewYear, "ok", "PermissionError"),
     File(F_MD, Root, TRUE, 512, NewYear, "OSError", "ok"),
     File(DIR_TXT, Root, FALSE, 4096, NewYear, "ok", "ok")}

CollectArgs ==
    {[DefaultArgs EXCEPT !.extensions = e, !.recursive = r] :
        e \in {<<>>, EXT_TXT, EXT_UPPER_TXT_MD, EXT_NO_DOT, EXT_TXT_COMMA},
        r \in BOOLEAN}

InitCollect == InitWith(Listings(CollectTemplates), CollectArgs, {None})

SpecCollect == InitCollect /\ [][Next]_vars

(* Runs that vary the modified times and the date bound, with the root    *)
(* present or missing and with or without an output file.                  *)
DateTemplates ==
    {Plain(A_TXT, Root, 1024, NewYear),
     Plain(C_MD, Root, 2048, MidYear),
     Plain(D_TXT, Root, 512, NewYearsEve),
     Plain(E_TXT, SubDir, 512, NewYearNoon)}

DateBounds ==
    {NoneOpt, Some(<<>>), Some(DF_NEW_YEAR), Some(DF_NEW_YEAR_SHORT),
     Some(DF_NEW_YEARS_EVE), Some(DF_WORDS), Some(DF_ISO), Some(DF_FEB_31),
     Some(DF_NO_TIME)}

DateArgs ==
    {[DefaultArgs EXCEPT !.date_filter = b, !.directory = d, !.output_file = o] :
        b \in DateBounds, d \in {Root, "missing"}, o \in {None, OutFile}}

InitDate == InitWith(Listings(DateTemplates), DateArgs, {None})

SpecDate == InitDate /\ [][Next]_vars

(* Runs that vary the names and the name filter.                           *)
NameTemplates ==
    {Plain(TEST_TXT, Root, 1024, NewYear),
     Plain(TEST_TXT, SubDir, 1024, NewYear),
     Plain(TEST_LOWER_MD, Root, 512, NewYear),
     Plain(BEST_TXT, Root, 512, MidYear),
     Plain(EX_TXT, Root, 2048, MidYear)}

NameFilters ==
    {NoneOpt, Some(<<>>), Some(NF_TEST), Some(NF_TEST_UPPER), Some(NF_ES),
     Some(NF_DOT_T), Some(NF_ABSENT)}

NameArgs == {[DefaultArgs EXCEPT !.name_filter = n] : n \in NameFilters}

InitName == InitWith(Listings(NameTemplates), NameArgs, {None})

SpecName == InitName /\ [][Next]_vars

(* Runs that vary the sizes and the minimum size.                          *)
SizeTemplates ==
    {Plain(A_TXT, Root, 0, NewYear),
     Plain(C_MD, Root, 512, NewYear),
     Plain(D_TXT, Root, 1024, NewYear),
     Plain(E_TXT, Root, 2048, NewYear)}

MinSizes == {NoneOpt, Some(0), Some(1000), Some(1024), Some(4096), Some(-1)}

SizeArgs ==
    {[DefaultArgs EXCEPT !.min_size = m, !.name_filter = n] :
        m \in MinSizes, n \in {NoneOpt, Some(NF_DOT_T)}}

InitSize == InitWith(Listings(SizeTemplates), SizeArgs, {None})

SpecSize == InitSize /\ [][Next]_vars

(* Runs that vary the sort key over entries with equal names, sizes and    *)
(* modified times.                                                         *)
SortTemplates ==
    {Plain(A_TXT, Root, 1024, NewYear),
     Plain(A_TXT, SubDir, 512, NewYearsEve),
     Plain(C_MD, Root, 1024, NewYearsEve),
     Plain(Z_TXT, Root, 512, MidYear),
     Plain(E_TXT, Root, 2048, NewYear)}

SortArgs ==
    {[DefaultArgs EXCEPT !.sort_by = k, !.min_size = m] :
        k \in {None, "name", "size", "modified", "path"},
        m \in {NoneOpt, Some(1000)}}

InitSort == InitWith(Listings(SortTemplates), SortArgs, {None})

SpecSort == InitSort /\ [][Next]_vars

(* Runs that vary the root, the environment, the output file and the       *)
(* output formats.                                                         *)
OutputTemplates ==
    {Plain(A_TXT, Root, 1024, NewYear),
     Plain(C_MD, Root, 512, MidYear)}

OutputFormats ==
    {NoneOpt, Some(<<>>), Some(<<"grid">>), Some(<<"grid", "tsv">>),
     Some(<<"tsv", "csv", "grid">>)}

OutputArgs ==
    {[DefaultArgs EXCEPT !.directory = d, !.date_filter = b, !.output_file = o,
                         !.output_formats = f] :
        d \in {Root, "missing"}, b \in {NoneOpt, Some(DF_WORDS)},
        o \in {None, OutFile}, f \in OutputFormats}

InitOutput ==
    InitWith(Listings(OutputTemplates), OutputArgs, {None, "", Root, "missing"})

SpecOutput == InitOutput /\ [][Next]_vars

(* Runs that vary the sort key, the output file and the output formats    *)
(* over entries that each key orders differently.                          *)
PresentTemplates ==
    {Plain(Z_TXT, Root, 2048, NewYear),
     Plain(A_TXT, Root, 1024, NewYearsEve),
     Plain(C_MD, Root, 512, MidYear)}

PresentArgs ==
    {[DefaultArgs EXCEPT !.sort_by = k, !.output_file = o, !.output_formats = f] :
        k \in {None, "name", "size", "modified"},
        o \in {None, OutFile},
        f \in {NoneOpt, Some(<<"grid">>), Some(<<"tsv", "grid">>)}}

InitPresent == InitWith(Listings(PresentTemplates), PresentArgs, {None})

SpecPresent == InitPresent /\ [][Next]_vars

----------------------------------------------------------------------------
(* Collection                                                              *)

(* The list collect_file_info returned, once main holds it.                *)
Collected == heap[1]

Walked == SearchPattern(fs, args.recursive)

PathsOf(list) == [k \in 1..Len(list) |-> list[k].path]

(* Two str are equal when case is ignored.                                 *)
EqualIgnoreCase(a, b) ==
    Len(a) = Len(b) /\ \A j \in 1..Len(a) : LowerChar(a[j]) = LowerChar(b[j])

(* The extensions as the caller wrote them, before any normalisation.      *)
Requested == {Split(args.extensions)[i] : i \in 1..Len(Split(args.extensions))}

StatSucceeds(p) == p.stat1 = "ok" /\ p.stat2 = "ok"

(* C1: every collected entry has size >= 0; with a non-empty allow-list an *)
(* entry is collected only if it is a regular file whose suffix equals a   *)
(* requested extension when case is ignored; with an empty allow-list      *)
(* every walked regular file whose stat succeeds is collected.             *)
C1_CollectedMatchAllowList ==
    pc = "size" =>
        /\ \A k \in 1..Len(Collected) :
              /\ Collected[k].size >= 0
              /\ \E i \in 1..Len(fs) :
                    /\ fs[i].path = Collected[k].path
                    /\ fs[i].is_file
                    /\ args.extensions /= <<>> =>
                          \E e \in Requested : EqualIgnoreCase(Suffix(fs[i].name), e)
        /\ args.extensions = <<>> =>
              \A i \in 1..Len(Walked) :
                  Walked[i].is_file /\ StatSucceeds(Walked[i]) =>
                      \E k \in 1..Len(Collected) : Collected[k].path = Walked[i].path

(* A run with an allow-list that collected a file whose suffix differs in  *)
(* case from the requested one and left out a regular file of another      *)
(* suffix.                                                                 *)
C1_Witness ==
    /\ pc = "size"
    /\ args.extensions = EXT_TXT
    /\ \E k \in 1..Len(Collected) : Collected[k].name = B_TXT_UPPER
    /\ \E i \in 1..Len(Walked) :
          /\ Walked[i].name = C_MD
          /\ \A k \in 1..Len(Collected) : Collected[k].path /= Walked[i].path

(* C2: a stat failure on a file is never fatal: no exception leaves the    *)
(* walk, and the list returned holds exactly the walked files that match   *)
(* and whose two stat calls succeed, in traversal order.                   *)
C2_StatFailureSkipsOnlyThatFile ==
    /\ raised \notin {"FileNotFoundError", "PermissionError", "OSError"}
    /\ pc = "size" =>
          PathsOf(Collected)
            = PathsOf(SelectSeq(Walked, LAMBDA p :
                        /\ p.is_file
                        /\ (extensions_set = {}
                              \/ Lower(Suffix(p.name)) \in extensions_set)
                        /\ StatSucceeds(p)))

(* A walk in which a stat fails on the first call for one file and on the  *)
(* second call for another, and a file met after both is collected.        *)
C2_Witness ==
    /\ pc = "size"
    /\ \E i, j, k \in 1..Len(Walked) :
          /\ i < k /\ j < k
          /\ Walked[i].stat1 /= "ok" /\ Matches(Walked[i], extensions_set)
          /\ Walked[j].stat1 = "ok" /\ Walked[j].stat2 /= "ok"
          /\ Matches(Walked[j], extensions_set)
          /\ StatSucceeds(Walked[k])
          /\ PathsOf(Collected) = <<Walked[k].path>>

----------------------------------------------------------------------------
(* The date filter                                                         *)

(* A broken-down time as a count of minutes: later times count more.       *)
Minutes(t) == (((t.Y * 12 + t.m) * 31 + t.d) * 24 + t.H) * 60 + t.M

(* The modified time stat() reported for the file an entry was built from. *)
MtimeOf(f) == fs[f.path].mtime

(* The date filter ran: a bound was given, it is not '', and main got past *)
(* the filter.                                                             *)
DateFilterRan ==
    /\ pc = "display"
    /\ ~IsNone(args.date_filter)
    /\ Val(args.date_filter) /= <<>>

(* C3: filter_by_date keeps exactly the entries modified at or after the   *)
(* bound, in their order; an entry modified at the bound is kept, and an   *)
(* empty list gives an empty list.                                         *)
C3_DateFilterKeepsAtOrAfterBound ==
    DateFilterRan =>
        LET before == heap[file_info_list - 1]
            bound == strptime(Val(args.date_filter)).value
        IN  /\ CurrentList
                 = SelectSeq(before, LAMBDA f : Minutes(MtimeOf(f)) >= Minutes(bound))
            /\ before = <<>> => CurrentList = <<>>

(* The bound 01.01.2023 00:00 kept the entry modified at that minute and   *)
(* dropped the one modified a minute earlier, which came first.            *)
C3_Witness ==
    /\ DateFilterRan
    /\ args.date_filter = Some(DF_NEW_YEAR)
    /\ Len(heap[file_info_list - 1]) >= 2
    /\ MtimeOf(heap[file_info_list - 1][1]) = NewYearsEve
    /\ \E k \in 1..Len(CurrentList) : MtimeOf(CurrentList[k]) = NewYear
    /\ \A k \in 1..Len(CurrentList) : MtimeOf(CurrentList[k]) /= NewYearsEve

(* A str is written exactly as dd.mm.yyyy HH:MM: sixteen characters, the   *)
(* digits and the separators in their places, and the fields a date.       *)
ExactFormat(s) ==
    /\ Len(s) = 16
    /\ \A i \in {1, 2, 4, 5, 7, 8, 9, 10, 12, 13, 15, 16} : IsDigit(s[i])
    /\ s[3] = "." /\ s[6] = "." /\ s[11] = " " /\ s[14] = ":"
    /\ ~strptime(s).raised

NothingWritten == \A p \in OutputPaths : disk[p] = Absent

(* C4: a run over an existing root whose date bound is not written as      *)
(* dd.mm.yyyy HH:MM ends with a ValueError, with nothing printed and no    *)
(* file written.                                                           *)
C4_MalformedBoundFailsRun ==
    (/\ pc = "done"
     /\ IsDir(directory_path)
     /\ ~IsNone(args.date_filter)
     /\ ~ExactFormat(Val(args.date_filter)))
        => (raised = "ValueError" /\ stdout = <<>> /\ NothingWritten)

(* What main does instead: the run ends with a ValueError, nothing printed *)
(* and nothing written, when the bound is not '' and strptime rejects it.  *)
RejectedBoundFailsRun ==
    (/\ pc = "done"
     /\ IsDir(directory_path)
     /\ ~IsNone(args.date_filter)
     /\ Val(args.date_filter) /= <<>>
     /\ strptime(Val(args.date_filter)).raised)
        => (raised = "ValueError" /\ stdout = <<>> /\ NothingWritten)

----------------------------------------------------------------------------
(* The name filter                                                         *)

(* needle occurs in hay at some offset when case is ignored.               *)
OccursIgnoringCase(hay, needle) ==
    \E o \in 0..(Len(hay) - Len(needle)) :
        EqualIgnoreCase(SubSeq(hay, o + 1, o + Len(needle)), needle)

NameFilterGiven == ~IsNone(args.name_filter) /\ Val(args.name_filter) /= <<>>

(* C5: the step that calls filter_by_name binds a list holding exactly the *)
(* entries whose name contains the filter when case is ignored, in their   *)
(* order and with duplicates; an empty list gives an empty list; the list  *)
(* passed in is the same afterwards.                                       *)
C5_NameFilterKeepsSubstringMatches ==
    [][(pc = "name" /\ NameFilterGiven) =>
          /\ heap'[file_info_list']
               = SelectSeq(heap[file_info_list], LAMBDA f :
                            OccursIgnoringCase(f.name, Val(args.name_filter)))
          /\ heap[file_info_list] = <<>> => heap'[file_info_list'] = <<>>
          /\ heap'[file_info_list] = heap[file_info_list]]_vars

(* The filter 'test' kept two entries both named Test.txt and dropped      *)
(* ex.txt.                                                                 *)
C5_Witness ==
    /\ pc = "date"
    /\ args.name_filter = Some(NF_TEST)
    /\ Len(CurrentList) = 2
    /\ CurrentList[1].name = TEST_TXT /\ CurrentList[2].name = TEST_TXT
    /\ \E k \in 1..Len(heap[file_info_list - 1]) :
          heap[file_info_list - 1][k].name = EX_TXT

----------------------------------------------------------------------------
(* The minimum size                                                        *)

(* The size stat() reported for the file an entry was built from.          *)
SizeOf(f) == fs[f.path].st_size

(* C6: with a minimum size given, no entry smaller than it reaches the     *)
(* presentation step, and when no other filter is given the list presented *)
(* is exactly the collected entries of at least that size, in their order. *)
C6_MinSizeInclusive ==
    (pc = "display" /\ ~IsNone(args.min_size)) =>
        /\ \A k \in 1..Len(CurrentList) : SizeOf(CurrentList[k]) >= Val(args.min_size)
        /\ (~NameFilterGiven /\ IsNone(args.date_filter)) =>
              CurrentList
                = SelectSeq(Collected, LAMBDA f : SizeOf(f) >= Val(args.min_size))

(* Files of 512, 1024 and 2048 bytes with a minimum of 1024: the entry of  *)
(* exactly 1024 bytes and the one of 2048 are presented.                   *)
C6_Witness ==
    /\ pc = "display"
    /\ args.min_size = Some(1024)
    /\ IsNone(args.name_filter)
    /\ {Collected[k].size : k \in 1..Len(Collected)} = {512, 1024, 2048}
    /\ {CurrentList[k].size : k \in 1..Len(CurrentList)} = {1024, 2048}

----------------------------------------------------------------------------
(* Sorting                                                                 *)

(* The key of an entry is not greater than the key of another.             *)
KeyNotGreater(key, a, b) ==
    IF key = "name" THEN ~StrLess(b.name, a.name)
    ELSE IF key = "size" THEN a.size <= b.size
    ELSE ~StrLess(b.modified_time, a.modified_time)

KeyEqual(key, a, b) == KeyNotGreater(key, a, b) /\ KeyNotGreater(key, b, a)

PositionIn(list, f) == CHOOSE i \in 1..Len(list) : list[i] = f

(* after holds the entries of before in non-decreasing order of the key,   *)
(* entries of equal key in the order they had in before.                   *)
IsStableSort(before, after, key) ==
    /\ Len(after) = Len(before)
    /\ {after[i] : i \in 1..Len(after)} = {before[i] : i \in 1..Len(before)}
    /\ \A i, j \in 1..Len(after) :
          i < j =>
              /\ KeyNotGreater(key, after[i], after[j])
              /\ KeyEqual(key, after[i], after[j]) =>
                    PositionIn(before, after[i]) < PositionIn(before, after[j])

(* C7: the presentation step leaves the list a stable sort of what it was, *)
(* by name, by size, or by the formatted modified-time string compared     *)
(* character by character; with no sort key it leaves the order as it was. *)
C7_SortStableByKey ==
    [][pc = "display" =>
          IF args.sort_by \in {"name", "size", "modified"}
          THEN IsStableSort(heap[file_info_list], heap'[file_info_list], args.sort_by)
          ELSE heap'[file_info_list] = heap[file_info_list]]_vars

(* Sorted by the modified key, an entry modified on 31.12.2022 stands      *)
(* after one modified on 01.01.2023, and two entries of equal modified     *)
(* time stand in traversal order.                                          *)
C7_Witness ==
    /\ pc = "write"
    /\ args.sort_by = "modified"
    /\ Len(CurrentList) = 3
    /\ MtimeOf(CurrentList[1]) = NewYear
    /\ MtimeOf(CurrentList[2]) = NewYearsEve
    /\ MtimeOf(CurrentList[3]) = NewYearsEve
    /\ CurrentList[2].path < CurrentList[3].path
    /\ CurrentList[1].path > CurrentList[3].path

----------------------------------------------------------------------------
(* The root directory and the output files                                 *)

(* The root as the interface describes it: the environment variable when   *)
(* it is set, else the positional argument.                                *)
EffectiveRoot == IF env /= None THEN Path(env) ELSE Path(args.directory)

DirectoryError == LogRec("ERROR", "directory does not exist")

(* C8: when the effective root is no directory nothing is processed: no    *)
(* list is collected or filtered, no exception is raised, nothing is       *)
(* printed and no file is written, and the run ends having logged only the *)
(* error.                                                                  *)
C8_InvalidRootEndsRun ==
    ~IsDir(EffectiveRoot) =>
        /\ heap = <<>>
        /\ raised = None
        /\ stdout = <<>>
        /\ NothingWritten
        /\ calls = <<>>
        /\ pc \in {"start", "done"}
        /\ pc = "done" => log = <<DirectoryError>>

(* The environment names a missing directory while the positional argument *)
(* names an existing one, with a malformed date bound and an output file.  *)
C8_Witness ==
    /\ pc = "done"
    /\ env = "missing"
    /\ args.directory = Root
    /\ args.date_filter = Some(DF_WORDS)
    /\ args.output_file = OutFile
    /\ log = <<DirectoryError>>

(* The run got past the filters to the loop over the output formats.       *)
ReachedWriting == pc = "done" /\ fmt_i >= 1

(* The records write_to_file logs when it writes to a file: one per call.  *)
WriteRecords ==
    {n \in 1..Len(log) :
        log[n].msg \in {"written to file", "no write access", "io error",
                        "unknown write error"}}

(* C9: no error raised while writing a format leaves write_to_file: each   *)
(* call to a file logs its success or its error, and a run that reaches    *)
(* the loop calls write_to_file once per requested format, in the order    *)
(* requested, whatever fails.                                              *)
C9_WriteErrorDoesNotAbort ==
    /\ raised \notin {"PermissionError", "OSError", "IOError", "Exception"}
    /\ args.output_file /= None => Cardinality(WriteRecords) = Len(calls)
    /\ ReachedWriting => calls = Formats /\ raised = None

(* Three formats were requested: the first write failed in a way only the  *)
(* last except clause catches, the second failed on open, the third was    *)
(* written.                                                                *)
C9_Witness ==
    /\ ReachedWriting
    /\ args.output_file = OutFile
    /\ calls = <<"tsv", "csv", "grid">>
    /\ \E n \in 1..Len(log) :
          /\ n + 2 = Len(log)
          /\ log[n] = LogRec("ERROR", "unknown write error")
          /\ log[n + 1] = LogRec("ERROR", "no write access")
          /\ log[n + 2] = LogRec("INFO", "written to file")

NoErrorLogged == \A n \in 1..Len(log) : log[n].level /= "ERROR"

(* C10: after a run with an output file in which every write succeeded,    *)
(* the rendering of each requested format is on disk.                      *)
C10_OneFilePerFormat ==
    (/\ ReachedWriting
     /\ args.output_file /= None
     /\ NoErrorLogged)
        => \A k \in 1..Len(Formats) :
              \E p \in OutputPaths :
                  disk[p] = Written(tabulate(Table(CurrentList), Formats[k]))

(* What main does instead: every format is written to the one output path, *)
(* so the file holds the rendering of the last requested format.           *)
LastFormatOnDisk ==
    (/\ ReachedWriting
     /\ args.output_file /= None
     /\ NoErrorLogged
     /\ Len(Formats) >= 1)
        => disk[args.output_file]
             = Written(tabulate(Table(CurrentList), Formats[Len(Formats)]))

----------------------------------------------------------------------------
(* What is written against what is printed                                 *)

(* The presentation step is over. *)
Presented == fmt_i >= 1

(* display_file_info printed its table: it logs "no files found" exactly   *)
(* when it prints none, and what it prints comes first on stdout.          *)
TablePrinted ==
    /\ \A n \in 1..Len(log) : log[n].msg /= "no files found"
    /\ stdout /= <<>>

(* The renderings write_to_file has produced and that can be read: the     *)
(* text of the output file, or what follows display's table on stdout.     *)
RenderingsWritten ==
    {disk[p].text[1] : p \in {q \in OutputPaths : disk[q].text /= <<>>}}
        \cup {stdout[n] : n \in ((IF TablePrinted THEN 2 ELSE 1)..Len(stdout))}

(* C11 (as stated): whatever list reaches the presentation step, the empty *)
(* one included, a table is printed to stdout and every rendering written  *)
(* holds the rows of that table, in its order.                             *)
C11_WrittenEqualsPrinted ==
    (Presented /\ RenderingsWritten /= {}) =>
        /\ TablePrinted
        /\ \A r \in RenderingsWritten : r.rows = stdout[1].rows

(* C11 (amended): for a non-empty list the table is printed and every      *)
(* rendering written holds its rows in its order, one rendering per call   *)
(* when they go to stdout; for the empty list no table is printed, and     *)
(* every rendering written has no rows.                                    *)
C11_WrittenEqualsPrintedUnlessEmpty ==
    Presented =>
        IF CurrentList /= <<>>
        THEN /\ TablePrinted
             /\ stdout[1].tablefmt = "grid"
             /\ \A r \in RenderingsWritten : r.rows = stdout[1].rows
             /\ args.output_file = None =>
                   /\ Len(stdout) = 1 + Len(calls)
                   /\ \A n \in 1..Len(calls) :
                         stdout[n + 1].tablefmt = tabulate(<<>>, calls[n]).tablefmt
        ELSE /\ ~TablePrinted
             /\ \A r \in RenderingsWritten : r.rows = <<>>
             /\ args.output_file = None => Len(stdout) = Len(calls)

(* Three files sorted by name into another order than the walk met them    *)
(* in, printed, and written as tsv and then as grid to the output file,    *)
(* which holds the rows in the sorted order.                               *)
C11_Witness ==
    /\ ReachedWriting
    /\ args.sort_by = "name"
    /\ args.output_file = OutFile
    /\ calls = <<"tsv", "grid">>
    /\ Len(CurrentList) = 3
    /\ PathsOf(CurrentList) /= <<1, 2, 3>>
    /\ disk[OutFile].text /= <<>>
    /\ disk[OutFile].text[1].rows = stdout[1].rows
    /\ stdout[1].rows = Table(CurrentList)

====
